---------------------------- MODULE Spec2Model ----------------------------
(***************************************************************************)
(* Model of autoMontage.py: tiled SEM montage acquisition.                 *)
(*                                                                         *)
(* Number representation.  The script computes with Python floats.  Every  *)
(* length the script holds in millimetres (TOTAL_HEIGHT, TOTAL_WIDTH,      *)
(* tileHeight, tileWidth) is represented here by the integer number of     *)
(* micrometres (1 mm = 1000), TILE_OVERLAP by the integer percentage       *)
(* (0.2 = 20), and stage coordinates by integer nanometres, as the script  *)
(* itself holds them after int().  The input sets below contain only       *)
(* values for which the double-precision results of the script agree with  *)
(* this exact arithmetic.                                                  *)
(***************************************************************************)
EXTENDS Integers, Sequences, FiniteSets, TLC

(***************************************************************************)
(* Python arithmetic                                                       *)
(***************************************************************************)
Abs(x) == IF x < 0 THEN -x ELSE x

\* int(a / b): truncation toward zero
PyInt(a, b) ==
    LET q == Abs(a) \div Abs(b)
    IN  IF (a < 0) # (b < 0) THEN -q ELSE q

\* a % b for b # 0: the result has the sign of the divisor
PyMod(a, b) == IF b > 0 THEN a % b ELSE -((-a) % (-b))

\* None; a parameter that is set is the 1-tuple of its value (a pair for coordinates)
None == <<>>

(***************************************************************************)
(* Parameters that the model keeps at the script's values                  *)
(***************************************************************************)
FOCUS_THRESHOLD == 100
AFC_MAG == 5000
MAX_AFC_RECURSIONS == 5

(***************************************************************************)
(* Bounds of the model                                                     *)
(***************************************************************************)
\* largest maxRecursions with which recursiveAutofocus is called directly
MaxAttempts == 3
\* largest number of grid rows / columns the mask operators are applied to
MaxGrid == 3

(***************************************************************************)
(* computeTileSize (lines 199-207), in micrometres                         *)
(***************************************************************************)
computeTileSize(photoSize, magValue) ==
    [tileHeight |-> (9525 * photoSize) \div (100 * magValue),
     tileWidth  |-> (127 * photoSize) \div magValue]

(***************************************************************************)
(* computeCapturePositions (lines 209-247)                                 *)
(***************************************************************************)
\* lines 215-216: int(tile * (1 - tileOverlap)), a whole number of mm
effectiveTile(tile, tileOverlap) == PyInt(tile * (100 - tileOverlap), 100 * 1000)

\* lines 219-220 and 223-224: total -= total % effective; total *= 1E6  (nm)
adjustedTotal(total, effective) == (total - PyMod(total, effective * 1000)) * 1000

\* variant: a started tile counted as a whole one
numTiles_roundUp(total, effective) ==
    PyInt(adjustedTotal(total, effective), effective * 1000000) + 1

\* lines 225-226 and 229-230: effective *= 1E6; int(total / effective)
numTiles(total, effective) == PyInt(adjustedTotal(total, effective), effective * 1000000)

\* lines 238-240 / 243-245: one appended position
tilePosition(startCoords, row, col, effH, effW) ==
    <<startCoords[1] + col * (effW * 1000000), startCoords[2] + row * (effH * 1000000)>>

\* variant: every row traversed left to right
rowPositions_raster(startCoords, row, numTilesWidth, effH, effW) ==
    [j \in 1..numTilesWidth |-> tilePosition(startCoords, row, j - 1, effH, effW)]

\* variant: the backward rows stop before column 0
rowPositions_stopEarly(startCoords, row, numTilesWidth, effH, effW) ==
    IF row % 2 = 0
    THEN [j \in 1..numTilesWidth |-> tilePosition(startCoords, row, j - 1, effH, effW)]
    ELSE [j \in 1..(numTilesWidth - 1) |->
              tilePosition(startCoords, row, numTilesWidth - j, effH, effW)]

\* lines 236-245: the positions appended for one row
rowPositions(startCoords, row, numTilesWidth, effH, effW) ==
    IF row % 2 = 0
    THEN [j \in 1..numTilesWidth |-> tilePosition(startCoords, row, j - 1, effH, effW)]
    ELSE [j \in 1..numTilesWidth |->
              tilePosition(startCoords, row, numTilesWidth - j, effH, effW)]

\* line 235: for row in range(numTilesHeight), rows row..numTilesHeight-1
RECURSIVE zigzagRows(_, _, _, _, _, _)
zigzagRows(startCoords, row, numTilesHeight, numTilesWidth, effH, effW) ==
    IF row >= numTilesHeight THEN <<>>
    ELSE rowPositions(startCoords, row, numTilesWidth, effH, effW)
         \o zigzagRows(startCoords, row + 1, numTilesHeight, numTilesWidth, effH, effW)

computeCapturePositions(startCoords, totalHeight, totalWidth, tileHeight, tileWidth, tileOverlap) ==
    LET effH == effectiveTile(tileHeight, tileOverlap)
        effW == effectiveTile(tileWidth, tileOverlap)
    IN  IF effH = 0 \/ effW = 0
        THEN [raised |-> "ZeroDivisionError", capturePositions |-> <<>>,
              numTilesHeight |-> 0, numTilesWidth |-> 0]
        ELSE LET nH == numTiles(totalHeight, effH)
                 nW == numTiles(totalWidth, effW)
             IN  [raised |-> "",
                  capturePositions |-> zigzagRows(startCoords, 0, nH, nW, effH, effW),
                  numTilesHeight |-> nH, numTilesWidth |-> nW]


(***************************************************************************)
(* Mask operators                                                          *)
(***************************************************************************)
\* the (rows, cols) arrays of 0/1 that rgbToTileBinary (lines 287-305) can return
binaryImages(rows, cols) == [1..rows -> [1..cols -> {0, 1}]]

Reverse(s) == [k \in 1..Len(s) |-> s[Len(s) + 1 - k]]

RECURSIVE Flatten(_)
Flatten(rows) == IF rows = <<>> THEN <<>> ELSE Head(rows) \o Flatten(Tail(rows))

\* line 309: np.flip(array_2d, axis=0)
flipVertical(array_2d) == Reverse(array_2d)

\* line 312: array_2d[1::2] = np.flip(array_2d[1::2], axis=1)
\* (0-based rows 1, 3, ... are the 1-based even rows)
flipOddRows(array_2d) ==
    [r \in 1..Len(array_2d) |-> IF r % 2 = 0 THEN Reverse(array_2d[r]) ELSE array_2d[r]]

\* lines 307-315.  np.reshape(a, (1, -1)) is a two-dimensional array with ONE
\* row holding all the cells, so the result is a 1-tuple of the flat sequence.
zigzagFlatten(array_2d) == << Flatten(flipOddRows(flipVertical(array_2d))) >>

\* line 105: len(mask), the size of the first axis
maskLen(m) == Len(m)

\* line 119: "not mask[i]" (i counted from 0).  mask[i] is a row of the array;
\* its truth value is defined only for a single cell.
maskRowAmbiguous(m, idx) == Len(m[idx + 1]) # 1
\* variant: the test of line 119 inverted
maskEntryFalse_inverted(m, idx) == m[idx + 1][1] # 0

maskEntryFalse(m, idx) == m[idx + 1][1] = 0

(***************************************************************************)
(* State                                                                   *)
(***************************************************************************)
VARIABLES
    pc,                 \* position of the script
    cfg,                \* the PARAMETERS block (lines 17-44)
    raised,             \* uncaught exception that ended the script, "" if none
    \* instrument (EXT)
    stageX, stageY, mag, hv, focus, wd, photoSize,
    \* locals of Script()
    startCoords, montageStartCoords, magValue, tileHeight, tileWidth,
    capturePositions, numTilesHeight, numTilesWidth, binary_image, mask, i,
    \* recursiveAutofocus: call stack and returned value
    stack, focusSuccessful,
    \* history of the current recursiveAutofocus call chain
    afArgs,             \* the frame with which the outermost call was entered
    entryFocus,         \* focus coarse value when the outermost call began
    lastAfFocus,        \* focus coarse value produced by the last RunAutoAfc
    afLog,              \* per RunAutoAfc: [ok, x] threshold outcome and stage X
    moves,              \* RunStageMove calls: [kind, x]
    reverts,            \* number of SetFocus calls
    \* history of the run
    issued,             \* names of the instrument commands issued so far
    initialStage,       \* stage (X, Y) when the script started
    visited,            \* tiles (values of i) the loop moved the stage to
    captured,           \* tiles (values of i) RunCapture was issued for
    focusFailed,        \* tiles for which recursiveAutofocus returned False
    failedCommand       \* the instrument command that failed, "" if none

instVars   == <<stageX, stageY, mag, hv, focus, wd, photoSize>>
scriptVars == <<startCoords, montageStartCoords, magValue, tileHeight, tileWidth,
                capturePositions, numTilesHeight, numTilesWidth, binary_image, mask, i>>
afVars     == <<stack, focusSuccessful>>
afHist     == <<afArgs, entryFocus, lastAfFocus, afLog, moves, reverts>>
runHist    == <<initialStage, visited, captured, focusFailed, failedCommand>>
vars == <<pc, cfg, raised, instVars, scriptVars, afVars, afHist, issued, runHist>>

(***************************************************************************)
(* Value sets of the instrument                                            *)
(***************************************************************************)
FocusVals == {500, 501}
WDVals == {5000, 5100, 5200}
StageVals == {0, 7}

\* largest number of planned tiles of a run of the script
MaxTiles == 4

\* the PARAMETERS blocks the runs are started with (lengths in micrometres,
\* overlap in percent); 6400 x 9000 and 20 are the script's own values
Configs ==
    [MONTAGE_START_COORDS : {None, <<1000, 2000>>},
     TOTAL_HEIGHT         : {2000, 6400, 18000},
     TOTAL_WIDTH          : {3000, 9000, 26000},
     TILE_OVERLAP         : {20, 150},
     MAG_VALUE            : {None, <<40>>},
     USE_ABC              : {FALSE},
     USE_AUTO_FOCUS       : BOOLEAN,
     USE_AUTO_ASTIGMA     : {FALSE},
     HV_OFF_ON_END        : BOOLEAN,
     MASK_PATH            : {None, <<"mask.png">>}]

\* the parameters of a state reached by calling a helper function directly
NoConfig ==
    [MONTAGE_START_COORDS |-> None, TOTAL_HEIGHT |-> 6400, TOTAL_WIDTH |-> 9000,
     TILE_OVERLAP |-> 20, MAG_VALUE |-> None, USE_ABC |-> FALSE,
     USE_AUTO_FOCUS |-> TRUE, USE_AUTO_ASTIGMA |-> FALSE, HV_OFF_ON_END |-> TRUE,
     MASK_PATH |-> None]

\* lines 66-70 and 73-77, for the bound on the planned tiles in Init
plannedTiles(c, stage, instMag, size) ==
    LET mv == IF c.MAG_VALUE = None THEN instMag ELSE c.MAG_VALUE[1]
        t  == computeTileSize(size, mv)
    IN  Len(computeCapturePositions(stage, c.TOTAL_HEIGHT, c.TOTAL_WIDTH,
                                    t.tileHeight, t.tileWidth,
                                    c.TILE_OVERLAP).capturePositions)

\* the frame of a call: its arguments, and its locals once assigned
newFrame(tw, thr, x, off, maxRec) ==
    [tileWidth |-> tw, focusThreshold |-> thr, xStart |-> x, offset |-> off,
     maxRecursions |-> maxRec, xNew |-> 0, oldFocus |-> 0,
     oldWorkingDistance |-> 0, newWorkingDistance |-> 0]

\* values of the locals of Script() and of the histories before they are set
LocalsUnset ==
    /\ startCoords = <<0, 0>> /\ montageStartCoords = <<0, 0>> /\ magValue = 0
    /\ tileHeight = 0 /\ tileWidth = 0
    /\ capturePositions = <<>> /\ numTilesHeight = 0 /\ numTilesWidth = 0
    /\ binary_image = <<>> /\ mask = <<>> /\ i = 0

RunHistUnset ==
    /\ initialStage = <<stageX, stageY>>
    /\ visited = <<>> /\ captured = <<>> /\ focusFailed = {} /\ failedCommand = ""

AfUnset ==
    /\ stack = <<>> /\ focusSuccessful = FALSE
    /\ afArgs = newFrame(0, 0, 0, 0, 0) /\ entryFocus = 0 /\ lastAfFocus = 0
    /\ afLog = <<>> /\ moves = <<>> /\ reverts = 0

(***************************************************************************)
(* Script(), lines 59-111: before the instrument is driven                 *)
(***************************************************************************)
Init ==
    /\ pc = "start"
    /\ raised = ""
    /\ stageX = 7 /\ stageY = 3
    /\ mag \in {40, 8000}
    /\ hv = "OFF"
    /\ focus = 500 /\ wd \in {5000, 5100}
    /\ photoSize \in {1280, 5120, 160000}
    /\ cfg \in Configs
    /\ plannedTiles(cfg, <<stageX, stageY>>, mag, photoSize) <= MaxTiles
    /\ LocalsUnset
    /\ AfUnset
    /\ issued = {}
    /\ RunHistUnset

\* lines 60-85
Setup ==
    /\ pc = "start"
    /\ startCoords' = <<stageX, stageY>>
    /\ montageStartCoords' = IF cfg.MONTAGE_START_COORDS = None
                             THEN <<stageX, stageY>>
                             ELSE cfg.MONTAGE_START_COORDS
    /\ magValue' = IF cfg.MAG_VALUE = None THEN mag ELSE cfg.MAG_VALUE[1]
    /\ mag' = magValue'
    /\ tileHeight' = computeTileSize(photoSize, magValue').tileHeight
    /\ tileWidth' = computeTileSize(photoSize, magValue').tileWidth
    /\ issued' = issued \cup {"SetMagnification"}
    /\ pc' = "plan"
    /\ UNCHANGED <<cfg, raised, stageX, stageY, hv, focus, wd, photoSize,
                   capturePositions, numTilesHeight, numTilesWidth, binary_image,
                   mask, i, afVars, afHist>>
    /\ UNCHANGED runHist

\* lines 88-95
Plan ==
    /\ pc = "plan"
    /\ LET r == computeCapturePositions(montageStartCoords, cfg.TOTAL_HEIGHT,
                                        cfg.TOTAL_WIDTH, tileHeight, tileWidth,
                                        cfg.TILE_OVERLAP)
       IN  /\ raised' = r.raised
           /\ pc' = IF r.raised # "" THEN "raised" ELSE "mask"
           /\ capturePositions' = r.capturePositions
           /\ numTilesHeight' = r.numTilesHeight
           /\ numTilesWidth' = r.numTilesWidth
    /\ UNCHANGED <<cfg, instVars, startCoords, montageStartCoords, magValue,
                   tileHeight, tileWidth, binary_image, mask, i, afVars, afHist,
                   issued>>
    /\ UNCHANGED runHist

\* lines 97-100 and 110-111.  Image.resize raises ValueError for a size that
\* is not positive.
LoadMask ==
    /\ pc = "mask"
    /\ IF cfg.MASK_PATH = None
       THEN /\ pc' = "hv_on"
            /\ UNCHANGED <<raised, binary_image>>
       ELSE IF numTilesWidth <= 0 \/ numTilesHeight <= 0
       THEN /\ pc' = "raised"
            /\ raised' = "ValueError"
            /\ UNCHANGED binary_image
       ELSE /\ binary_image' \in binaryImages(numTilesHeight, numTilesWidth)
            /\ pc' = "flatten"
            /\ UNCHANGED raised
    /\ UNCHANGED <<cfg, instVars, startCoords, montageStartCoords, magValue,
                   tileHeight, tileWidth, capturePositions, numTilesHeight,
                   numTilesWidth, mask, i, afVars, afHist, issued>>
    /\ UNCHANGED runHist

\* variant: the mismatch logged without leaving the script
afterMaskCheck_noReturn(m, positions) == "hv_on"

\* lines 105-108: Exit() and return on a length mismatch
afterMaskCheck(m, positions) ==
    IF maskLen(m) # Len(positions) THEN "exited" ELSE "hv_on"

\* lines 103-109
FlattenMask ==
    /\ pc = "flatten"
    /\ mask' = zigzagFlatten(binary_image)
    /\ pc' = afterMaskCheck(mask', capturePositions)
    /\ UNCHANGED <<cfg, raised, instVars, startCoords, montageStartCoords, magValue,
                   tileHeight, tileWidth, capturePositions, numTilesHeight,
                   numTilesWidth, binary_image, i, afVars, afHist, issued>>
    /\ UNCHANGED runHist

(***************************************************************************)
(* recursiveAutofocus (lines 249-285)                                      *)
(***************************************************************************)
Top == stack[Len(stack)]
Pop == SubSeq(stack, 1, Len(stack) - 1)
SetTop(f) == [stack EXCEPT ![Len(stack)] = f]

\* where a return continues: line 284 of the calling frame, or the caller
returnPc == IF Len(stack) = 1 THEN "focus_done" ELSE "af_restore"

\* variant: the budget test off by one
budgetExhausted_offByOne(f) == f.maxRecursions <= 1

\* line 252
budgetExhausted(f) == f.maxRecursions <= 0

\* variant: the probe move also issued for a zero offset
needsProbeMove_always(f) == f.offset >= 0

\* line 258
needsProbeMove(f) == f.offset > 0

\* line 276
thresholdExceeded(f) == Abs(f.newWorkingDistance - f.oldWorkingDistance) > f.focusThreshold

\* variant: the focus left as the autofocus set it
revertedFocus_none(f) == focus

\* line 279: the value handed to SetFocus
revertedFocus(f) == f.oldFocus

\* variant: every probe displaced from the anchor of the calling frame
recursiveCall_sameAnchor(f) ==
    newFrame(f.tileWidth, f.focusThreshold, f.xStart, PyInt(f.tileWidth, 10000),
             f.maxRecursions - 1)

\* line 281: the arguments of the recursive call; int(0.1*tileWidth) with
\* tileWidth in mm
recursiveCall(f) ==
    newFrame(f.tileWidth, f.focusThreshold, f.xNew, PyInt(f.tileWidth, 10000),
             f.maxRecursions - 1)

\* variant: the stage sent back to the frame's own probe position
restoreTarget_probe(f) == f.xNew

\* variant: the position kept when the recursive call succeeded
restoreTarget_keepOnSuccess(f) == IF focusSuccessful THEN stageX ELSE f.xStart

\* line 284: the target of the restoring move
restoreTarget(f) == f.xStart

\* lines 252-260
AfEnter ==
    /\ pc = "af_entry"
    /\ IF budgetExhausted(Top)
       THEN /\ focusSuccessful' = FALSE
            /\ stack' = Pop
            /\ pc' = returnPc
            /\ UNCHANGED <<stageX, moves, issued>>
       ELSE LET xNew == Top.xStart + Top.offset
            IN  /\ stack' = SetTop([Top EXCEPT !.xNew = xNew])
                /\ IF needsProbeMove(Top)
                   THEN /\ stageX' = xNew
                        /\ moves' = Append(moves, [kind |-> "probe", x |-> xNew])
                        /\ issued' = issued \cup {"RunStageMove"}
                   ELSE UNCHANGED <<stageX, moves, issued>>
                /\ pc' = "af_measure"
                /\ UNCHANGED focusSuccessful
    /\ UNCHANGED <<cfg, raised, stageY, mag, hv, focus, wd, photoSize, scriptVars,
                   afArgs, entryFocus, lastAfFocus, afLog, reverts>>
    /\ UNCHANGED runHist

\* lines 263-273: GetFocus, GetWorkingDistance, RunAutoAfc, GetWorkingDistance.
\* The autofocus leaves the instrument at any focus and working distance.
AfMeasure ==
    /\ pc = "af_measure"
    /\ \E f \in FocusVals, w \in WDVals :
          /\ focus' = f
          /\ wd' = w
          /\ lastAfFocus' = f
          /\ stack' = SetTop([Top EXCEPT !.oldFocus = focus,
                                         !.oldWorkingDistance = wd,
                                         !.newWorkingDistance = w])
    /\ issued' = issued \cup {"RunAutoAfc"}
    /\ pc' = "af_check"
    /\ UNCHANGED <<cfg, raised, stageX, stageY, mag, hv, photoSize, scriptVars,
                   focusSuccessful, afArgs, entryFocus, afLog, moves, reverts>>
    /\ UNCHANGED runHist

\* lines 275-281.  What SetFocus(Coarse=...) does to the working distance is
\* the instrument's business: any value.
AfCheck ==
    /\ pc = "af_check"
    /\ IF thresholdExceeded(Top)
       THEN /\ focus' = revertedFocus(Top)
            /\ wd' \in WDVals
            /\ reverts' = reverts + 1
            /\ issued' = issued \cup {"SetFocus"}
            /\ afLog' = Append(afLog, [ok |-> FALSE, x |-> stageX])
            /\ stack' = Append(stack, recursiveCall(Top))
            /\ pc' = "af_entry"
            /\ UNCHANGED focusSuccessful
       ELSE /\ afLog' = Append(afLog, [ok |-> TRUE, x |-> stageX])
            /\ focusSuccessful' = TRUE
            /\ stack' = Pop
            /\ pc' = returnPc
            /\ UNCHANGED <<focus, wd, reverts, issued>>
    /\ UNCHANGED <<cfg, raised, stageX, stageY, mag, hv, photoSize, scriptVars,
                   afArgs, entryFocus, lastAfFocus, moves>>
    /\ UNCHANGED runHist

\* lines 283-285, after the recursive call has returned
AfRestore ==
    /\ pc = "af_restore"
    /\ stageX' = restoreTarget(Top)
    /\ moves' = Append(moves, [kind |-> "restore", x |-> restoreTarget(Top)])
    /\ issued' = issued \cup {"RunStageMove"}
    /\ stack' = Pop
    /\ pc' = returnPc
    /\ UNCHANGED <<cfg, raised, stageY, mag, hv, focus, wd, photoSize, scriptVars,
                   focusSuccessful, afArgs, entryFocus, lastAfFocus, afLog, reverts>>
    /\ UNCHANGED runHist

NextFocus == AfEnter \/ AfMeasure \/ AfCheck \/ AfRestore

(***************************************************************************)
(* Script(), lines 113-196: the run on the instrument                      *)
(***************************************************************************)
\* lines 113-114
HvOn ==
    /\ pc = "hv_on"
    /\ hv' = "ON"
    /\ issued' = issued \cup {"SetHv_ON"}
    /\ i' = 0
    /\ pc' = "loop"
    /\ UNCHANGED <<cfg, raised, stageX, stageY, mag, focus, wd, photoSize,
                   startCoords, montageStartCoords, magValue, tileHeight, tileWidth,
                   capturePositions, numTilesHeight, numTilesWidth, binary_image,
                   mask, afVars, afHist>>
    /\ UNCHANGED runHist

\* lines 117-124: the loop head, the mask test and the move to the tile
NextTile ==
    /\ pc = "loop"
    /\ IF i >= Len(capturePositions)
       THEN /\ pc' = "return_start"
            /\ UNCHANGED <<raised, stageX, stageY, i, issued, visited>>
       ELSE IF cfg.MASK_PATH # None /\ i + 1 > maskLen(mask)
       THEN /\ pc' = "raised" /\ raised' = "IndexError"
            /\ UNCHANGED <<stageX, stageY, i, issued, visited>>
       ELSE IF cfg.MASK_PATH # None /\ maskRowAmbiguous(mask, i)
       THEN /\ pc' = "raised" /\ raised' = "ValueError"
            /\ UNCHANGED <<stageX, stageY, i, issued, visited>>
       ELSE IF cfg.MASK_PATH # None /\ maskEntryFalse(mask, i)
       THEN /\ i' = i + 1
            /\ pc' = "loop"
            /\ UNCHANGED <<raised, stageX, stageY, issued, visited>>
       ELSE /\ stageX' = capturePositions[i + 1][1]
            /\ stageY' = capturePositions[i + 1][2]
            /\ issued' = issued \cup {"RunStageMove"}
            /\ visited' = Append(visited, i)
            /\ pc' = "abc"
            /\ UNCHANGED <<raised, i>>
    /\ UNCHANGED <<cfg, mag, hv, focus, wd, photoSize, startCoords,
                   montageStartCoords, magValue, tileHeight, tileWidth,
                   capturePositions, numTilesHeight, numTilesWidth, binary_image,
                   mask, afVars, afHist>>
    /\ UNCHANGED <<initialStage, captured, focusFailed, failedCommand>>

\* lines 126-129
AutoAbc ==
    /\ pc = "abc"
    /\ issued' = IF cfg.USE_ABC THEN issued \cup {"RunAutoAbc"} ELSE issued
    /\ pc' = "afc"
    /\ UNCHANGED <<cfg, raised, instVars, scriptVars, afVars, afHist>>
    /\ UNCHANGED runHist

\* lines 131-138: the call of recursiveAutofocus for tile i
FocusCall ==
    /\ pc = "afc"
    /\ IF cfg.USE_AUTO_FOCUS
       THEN /\ mag' = IF magValue < AFC_MAG THEN AFC_MAG ELSE mag
            /\ issued' = IF magValue < AFC_MAG
                         THEN issued \cup {"SetMagnification"} ELSE issued
            /\ stack' = <<newFrame(tileWidth, FOCUS_THRESHOLD,
                                   capturePositions[i + 1][1], 0, MAX_AFC_RECURSIONS)>>
            /\ afArgs' = newFrame(tileWidth, FOCUS_THRESHOLD,
                                  capturePositions[i + 1][1], 0, MAX_AFC_RECURSIONS)
            /\ entryFocus' = focus
            /\ lastAfFocus' = 0
            /\ afLog' = <<>>
            /\ moves' = <<>>
            /\ reverts' = 0
            /\ pc' = "af_entry"
       ELSE /\ pc' = "ast"
            /\ UNCHANGED <<mag, issued, stack, afHist>>
    /\ UNCHANGED <<cfg, raised, stageX, stageY, hv, focus, wd, photoSize,
                   scriptVars, focusSuccessful>>
    /\ UNCHANGED runHist

\* variant: a failed focus recovery ends the loop
afterFocus_abort(ok) == IF ok THEN "ast" ELSE "return_start"

\* lines 139-144: whatever recursiveAutofocus returned, the tile goes on
afterFocus(ok) == "ast"

\* lines 139-142: the outcome is logged and nothing else
FocusLog ==
    /\ pc = "focus_done"
    /\ focusFailed' = IF focusSuccessful THEN focusFailed ELSE focusFailed \cup {i}
    /\ pc' = afterFocus(focusSuccessful)
    /\ UNCHANGED <<cfg, raised, instVars, scriptVars, afVars, afHist, issued>>
    /\ UNCHANGED <<initialStage, visited, captured, failedCommand>>

\* lines 144-147
AutoAsc ==
    /\ pc = "ast"
    /\ issued' = IF cfg.USE_AUTO_ASTIGMA THEN issued \cup {"RunAutoAsc"} ELSE issued
    /\ pc' = "capture"
    /\ UNCHANGED <<cfg, raised, instVars, scriptVars, afVars, afHist>>
    /\ UNCHANGED runHist

\* variant: the magnification left as focus recovery set it
captureMag_unchanged == mag

\* line 150: the magnification set before the capture
captureMag == magValue

\* lines 149-158
Capture ==
    /\ pc = "capture"
    /\ mag' = captureMag
    /\ issued' = issued \cup {"SetMagnification", "RunCapture"}
    /\ captured' = Append(captured, i)
    /\ pc' = "save"
    /\ UNCHANGED <<cfg, raised, stageX, stageY, hv, focus, wd, photoSize,
                   scriptVars, afVars, afHist>>
    /\ UNCHANGED <<initialStage, visited, focusFailed, failedCommand>>

\* lines 160-184: the files are renamed, scanning resumes, next i
SaveAndResume ==
    /\ pc = "save"
    /\ issued' = issued \cup {"RunScan"}
    /\ i' = i + 1
    /\ pc' = "loop"
    /\ UNCHANGED <<cfg, raised, instVars, startCoords, montageStartCoords, magValue,
                   tileHeight, tileWidth, capturePositions, numTilesHeight,
                   numTilesWidth, binary_image, mask, afVars, afHist>>
    /\ UNCHANGED runHist

\* variant: the stage sent to the start of the montage
returnTarget_montageStart == montageStartCoords

\* line 187: where the stage is sent after the last tile
returnTarget == startCoords

\* lines 186-188
ReturnToStart ==
    /\ pc = "return_start"
    /\ stageX' = returnTarget[1]
    /\ stageY' = returnTarget[2]
    /\ issued' = issued \cup {"RunStageMove"}
    /\ pc' = "hv_off"
    /\ UNCHANGED <<cfg, raised, mag, hv, focus, wd, photoSize, scriptVars, afVars,
                   afHist>>
    /\ UNCHANGED runHist

\* lines 190-196
HvOff ==
    /\ pc = "hv_off"
    /\ hv' = IF cfg.HV_OFF_ON_END THEN "OFF" ELSE hv
    /\ issued' = IF cfg.HV_OFF_ON_END THEN issued \cup {"SetHv_OFF"} ELSE issued
    /\ pc' = "exited"
    /\ UNCHANGED <<cfg, raised, stageX, stageY, mag, focus, wd, photoSize,
                   scriptVars, afVars, afHist>>
    /\ UNCHANGED runHist

(***************************************************************************)
(* A failing instrument command.  Every EXT call of the script is a plain  *)
(* statement r = EXT....(...), outside any try block, and nothing reads a  *)
(* status from r; the command reports its failure by raising.              *)
(***************************************************************************)
\* the instrument commands the step at pc issues, in the order of the code
stepCommands ==
    CASE pc = "start" ->
             <<"GetStagePosition">>
             \o (IF cfg.MONTAGE_START_COORDS = None THEN <<"GetStagePosition">> ELSE <<>>)
             \o (IF cfg.MAG_VALUE = None THEN <<"GetMagnification">> ELSE <<>>)
             \o <<"SetMagnification", "GetPhotoSize">>
      [] pc = "hv_on" -> <<"SetHv_ON">>
      [] pc = "loop" ->
             IF /\ i < Len(capturePositions)
                /\ \/ cfg.MASK_PATH = None
                   \/ /\ i + 1 <= maskLen(mask)
                      /\ ~maskRowAmbiguous(mask, i)
                      /\ ~maskEntryFalse(mask, i)
             THEN <<"RunStageMove">> ELSE <<>>
      [] pc = "abc" -> IF cfg.USE_ABC THEN <<"RunAutoAbc">> ELSE <<>>
      [] pc = "afc" ->
             IF cfg.USE_AUTO_FOCUS /\ magValue < AFC_MAG
             THEN <<"SetMagnification">> ELSE <<>>
      [] pc = "af_entry" ->
             IF ~budgetExhausted(Top) /\ needsProbeMove(Top)
             THEN <<"RunStageMove">> ELSE <<>>
      [] pc = "af_measure" ->
             <<"GetFocus", "GetWorkingDistance", "RunAutoAfc", "GetWorkingDistance">>
      [] pc = "af_check" -> IF thresholdExceeded(Top) THEN <<"SetFocus">> ELSE <<>>
      [] pc = "af_restore" -> <<"RunStageMove">>
      [] pc = "ast" -> IF cfg.USE_AUTO_ASTIGMA THEN <<"RunAutoAsc">> ELSE <<>>
      [] pc = "capture" -> <<"SetMagnification", "RunCapture">>
      [] pc = "save" -> <<"RunScan">>
      [] pc = "return_start" -> <<"RunStageMove">>
      [] pc = "hv_off" -> IF cfg.HV_OFF_ON_END THEN <<"SetHv_OFF">> ELSE <<>>
      [] OTHER -> <<>>

\* variant: the failure caught and the step run again
afterInstrumentError_retry(at) == at

\* no try statement in the file: the exception leaves Script()
afterInstrumentError(at) == "raised"

\* the k-th command of the step fails; the commands before it have acted
Fail ==
    /\ \E k \in 1..Len(stepCommands) :
          LET done == {stepCommands[j] : j \in 1..(k - 1)}
          IN  /\ failedCommand' = stepCommands[k]
              /\ issued' = issued \cup done \cup {stepCommands[k]}
              /\ mag' = IF "SetMagnification" \notin done THEN mag
                        ELSE IF pc = "capture" THEN captureMag
                        ELSE IF cfg.MAG_VALUE = None THEN mag ELSE cfg.MAG_VALUE[1]
              /\ IF "RunAutoAfc" \in done
                 THEN focus' \in FocusVals /\ wd' \in WDVals
                 ELSE UNCHANGED <<focus, wd>>
    /\ raised' = "InstrumentError"
    /\ pc' = afterInstrumentError(pc)
    /\ UNCHANGED <<cfg, stageX, stageY, hv, photoSize, scriptVars, afVars, afHist>>
    /\ UNCHANGED <<initialStage, visited, captured, focusFailed>>

Next ==
    \/ Setup \/ Plan \/ LoadMask \/ FlattenMask \/ HvOn \/ NextTile \/ AutoAbc
    \/ FocusCall \/ NextFocus \/ FocusLog \/ AutoAsc \/ Capture \/ SaveAndResume
    \/ ReturnToStart \/ HvOff \/ Fail

Spec == Init /\ [][Next]_vars

(***************************************************************************)
(* recursiveAutofocus called directly, the stage standing at xStart        *)
(***************************************************************************)
InitFocus ==
    /\ pc = "af_entry"
    /\ cfg = NoConfig
    /\ raised = ""
    /\ stageX \in StageVals /\ stageY = 3
    /\ mag = AFC_MAG
    /\ hv = "ON"
    /\ focus \in FocusVals /\ wd \in WDVals
    /\ photoSize = 1280
    /\ LocalsUnset
    /\ \E tw \in {1016, 10160, 20320}, thr \in {0, FOCUS_THRESHOLD},
          maxRec \in 0..MaxAttempts :
          stack = <<newFrame(tw, thr, stageX, 0, maxRec)>>
    /\ focusSuccessful = FALSE
    /\ afArgs = stack[1] /\ entryFocus = focus /\ lastAfFocus = 0
    /\ afLog = <<>> /\ moves = <<>> /\ reverts = 0
    /\ issued = {}
    /\ RunHistUnset

SpecFocus == InitFocus /\ [][NextFocus]_vars

(***************************************************************************)
(* computeCapturePositions called directly (line 88)                       *)
(***************************************************************************)
InitPlan ==
    /\ pc = "plan"
    /\ raised = ""
    /\ stageX = 0 /\ stageY = 3 /\ mag = 40 /\ hv = "OFF"
    /\ focus = 500 /\ wd = 5000 /\ photoSize = 1280
    /\ \E h \in {400, 1000, 4500, 6400}, w \in {2900, 6400, 9000},
          o \in {0, 20, 50, 150} :
          cfg = [NoConfig EXCEPT !.TOTAL_HEIGHT = h, !.TOTAL_WIDTH = w,
                                 !.TILE_OVERLAP = o]
    /\ startCoords = <<0, 0>>
    /\ montageStartCoords \in {<<0, 0>>, <<1000, -2000>>}
    /\ magValue = 40
    /\ tileHeight \in {1000, 1524, 3048}
    /\ tileWidth \in {1000, 2032, 4064}
    /\ capturePositions = <<>> /\ numTilesHeight = 0 /\ numTilesWidth = 0
    /\ binary_image = <<>> /\ mask = <<>> /\ i = 0
    /\ AfUnset
    /\ issued = {}
    /\ RunHistUnset

SpecPlan == InitPlan /\ [][Plan]_vars

(***************************************************************************)
(* the mask flattened for a planned grid (lines 103-109)                   *)
(***************************************************************************)
InitMask ==
    /\ pc = "flatten"
    /\ numTilesHeight \in 1..MaxGrid /\ numTilesWidth \in 1..MaxGrid
    /\ cfg = [NoConfig EXCEPT !.MASK_PATH = <<"mask.png">>,
                              !.TOTAL_HEIGHT = numTilesHeight * 1000,
                              !.TOTAL_WIDTH = numTilesWidth * 1000]
    /\ raised = ""
    /\ stageX = 0 /\ stageY = 3 /\ mag = 40 /\ hv = "OFF"
    /\ focus = 500 /\ wd = 5000 /\ photoSize = 1280
    /\ startCoords = <<0, 3>> /\ montageStartCoords = <<0, 3>> /\ magValue = 40
    /\ tileHeight = 1250 /\ tileWidth = 1250
    /\ capturePositions = computeCapturePositions(montageStartCoords,
                              numTilesHeight * 1000, numTilesWidth * 1000,
                              tileHeight, tileWidth, 20).capturePositions
    /\ binary_image \in binaryImages(numTilesHeight, numTilesWidth)
    /\ mask = <<>> /\ i = 0
    /\ AfUnset
    /\ issued = {"SetMagnification"}
    /\ RunHistUnset

SpecMask == InitMask /\ [][FlattenMask]_vars

(***************************************************************************)
(* Properties of recursiveAutofocus, checked under SpecFocus               *)
(***************************************************************************)
Returned == pc = "focus_done"
AllFailed == \A k \in 1..Len(afLog) : ~afLog[k].ok
\* int(0.1*tileWidth) of the outermost call
ProbeStep == PyInt(afArgs.tileWidth, 10000)
ProbeMoves == SelectSeq(moves, LAMBDA m : m.kind = "probe")
RestoreMoves == SelectSeq(moves, LAMBDA m : m.kind = "restore")
\* xStart of the call at depth d (depth 0 is the outermost call)
EntryAnchor(d) == IF d = 0 THEN afArgs.xStart ELSE afArgs.xStart + (d - 1) * ProbeStep

\* C1: if the autofocus fails the threshold check at every depth, a call with
\* maxRecursions >= 1 from a stage at xStart returns False after exactly
\* maxRecursions autofocus runs, and the stage X is then xStart again.
C1_ExhaustedReturnsFalseAtAnchor ==
    (Returned /\ afArgs.maxRecursions >= 1 /\ AllFailed)
        => /\ focusSuccessful = FALSE
           /\ Len(afLog) = afArgs.maxRecursions
           /\ stageX = afArgs.xStart

C1_Witness ==
    /\ Returned /\ AllFailed /\ ~focusSuccessful
    /\ afArgs.maxRecursions >= 2 /\ Len(afLog) >= 2
    /\ ProbeStep > 0 /\ Len(ProbeMoves) >= 1

\* C2 as stated: with every depth failing, the moves are maxRecursions probe
\* moves, the k-th to xStart + k*step, then maxRecursions restore moves to the
\* entry anchors in reverse order, the last to xStart.
C2_Original ==
    (Returned /\ afArgs.maxRecursions >= 1 /\ AllFailed)
        => LET m == afArgs.maxRecursions
           IN  moves = [k \in 1..(2 * m) |->
                          IF k <= m
                          THEN [kind |-> "probe", x |-> afArgs.xStart + k * ProbeStep]
                          ELSE [kind |-> "restore", x |-> EntryAnchor(2 * m - k)]]

\* C2 as amended: with every depth failing, the moves are maxRecursions - 1
\* probe moves (none for depth 0, and none at all when the step is 0), the
\* k-th to xStart + k*step, then maxRecursions restore moves to the entry
\* anchors in reverse order, the last to xStart.
C2_MoveSequence ==
    (Returned /\ afArgs.maxRecursions >= 1 /\ AllFailed)
        => LET m == afArgs.maxRecursions
               p == IF ProbeStep > 0 THEN m - 1 ELSE 0
           IN  moves = [k \in 1..(p + m) |->
                          IF k <= p
                          THEN [kind |-> "probe", x |-> afArgs.xStart + k * ProbeStep]
                          ELSE [kind |-> "restore", x |-> EntryAnchor(p + m - k)]]

C2_Witness ==
    /\ Returned /\ AllFailed /\ afArgs.maxRecursions >= 3
    /\ ProbeStep > 0
    /\ Len(ProbeMoves) = 2 /\ Len(RestoreMoves) = 3
    /\ moves[Len(moves)].x = afArgs.xStart

\* C3 as stated: when the autofocus passes at depth d, the call returns True,
\* no restore move was issued, the stage X is the probe position of the
\* success, xStart + d*step, and the new focus is kept.
C3_Original ==
    (Returned /\ focusSuccessful)
        => /\ RestoreMoves = <<>>
           /\ stageX = afArgs.xStart + (Len(afLog) - 1) * ProbeStep
           /\ focus = lastAfFocus

\* C3 as amended: when the autofocus passes at depth d, the call returns True
\* and the new focus is kept; the autofocus passed at xStart + d*step, the d
\* failed depths above each reverted the focus before and each issued its
\* restore move after, so the stage X on return is xStart.
C3_SuccessKeepsFocusRestoresPosition ==
    (Returned /\ Len(afLog) >= 1 /\ afLog[Len(afLog)].ok)
        => LET d == Len(afLog) - 1
           IN  /\ focusSuccessful = TRUE
               /\ afLog[d + 1].x = afArgs.xStart + d * ProbeStep
               /\ focus = lastAfFocus
               /\ reverts = d
               /\ Len(RestoreMoves) = d
               /\ stageX = afArgs.xStart

C3_Witness ==
    /\ Returned /\ focusSuccessful
    /\ Len(afLog) >= 3 /\ ProbeStep > 0
    /\ afLog[Len(afLog)].x # afArgs.xStart
    /\ focus # entryFocus

\* C4 as stated: when the whole chain fails, the stage X is xStart and the
\* focus coarse value is the one the last autofocus produced.
C4_Original ==
    (Returned /\ ~focusSuccessful /\ Len(afLog) >= 1)
        => /\ stageX = afArgs.xStart
           /\ focus = lastAfFocus

\* C4 as amended: when the whole chain fails, the stage X is xStart and the
\* focus coarse value is the one it had before the call, whatever the
\* autofocus runs produced.
C4_FailureRollsBackPositionAndFocus ==
    (Returned /\ ~focusSuccessful)
        => /\ stageX = afArgs.xStart
           /\ focus = entryFocus

C4_Witness ==
    /\ Returned /\ ~focusSuccessful
    /\ Len(afLog) >= 2 /\ ProbeStep > 0
    /\ lastAfFocus # entryFocus

\* C5: when the first autofocus passes the threshold check, the call returns
\* True after exactly one autofocus, no stage move and no SetFocus.
C5_FirstAttemptSuccess ==
    (Returned /\ Len(afLog) >= 1 /\ afLog[1].ok)
        => /\ focusSuccessful = TRUE
           /\ Len(afLog) = 1
           /\ moves = <<>>
           /\ reverts = 0
           /\ stageX = afArgs.xStart

C5_Witness ==
    /\ Returned /\ focusSuccessful
    /\ Len(afLog) = 1 /\ afLog[1].ok
    /\ afArgs.maxRecursions >= 2 /\ ProbeStep > 0
    /\ focus # entryFocus

\* C15: at every depth whose autofocus fails the threshold check the focus
\* is set back to the value read before that depth's autofocus, the next depth
\* is entered with this depth's probe X as its anchor and before any restoring
\* move, and the restoring moves are issued only while the calls return, the
\* deepest failed depth first, each to that depth's own entry anchor.
C15_RollbackProtocol ==
    /\ (pc = "af_entry" /\ Len(stack) >= 2) =>
          LET caller == stack[Len(stack) - 1]
          IN  /\ focus = caller.oldFocus /\ focus = entryFocus
              /\ Top.xStart = caller.xNew /\ Top.xStart = stageX
    /\ pc \in {"af_entry", "af_measure", "af_check"} =>
          RestoreMoves = <<>> /\ Len(stack) = reverts + 1
    /\ pc = "af_restore" =>
          Len(stack) >= 1 /\ Len(stack) = reverts - Len(RestoreMoves)
    /\ Returned => Len(RestoreMoves) = reverts
    /\ moves = ProbeMoves \o RestoreMoves
    /\ \A j \in 1..Len(RestoreMoves) : RestoreMoves[j].x = EntryAnchor(reverts - j)

C15_Witness ==
    /\ Returned /\ reverts >= 3 /\ ProbeStep > 0
    /\ Len(RestoreMoves) = 3
    /\ RestoreMoves[1].x # RestoreMoves[3].x
    /\ focus = entryFocus /\ lastAfFocus # entryFocus

(***************************************************************************)
(* Properties of computeCapturePositions, checked under SpecPlan           *)
(***************************************************************************)
PlanReturned == pc = "mask"
PlanEnded == pc # "plan"
\* overlap in [0, 1) and positive tile sizes
ValidGeometry ==
    cfg.TILE_OVERLAP >= 0 /\ cfg.TILE_OVERLAP < 100 /\ tileHeight > 0 /\ tileWidth > 0
\* the row and column steps in nm (lines 225-226)
StepY == effectiveTile(tileHeight, cfg.TILE_OVERLAP) * 1000000
StepX == effectiveTile(tileWidth, cfg.TILE_OVERLAP) * 1000000
\* the position appended j-th (from 0) in row r (from 0)
PlannedAt(r, j) == capturePositions[r * numTilesWidth + j + 1]

\* C6: for totalHeight 6.4, totalWidth 9, tiles 1.0 x 1.0 and overlap 0.2
\* computeCapturePositions returns 8 rows, 11 columns and 88 positions.
C6_Example ==
    (PlanEnded /\ cfg.TOTAL_HEIGHT = 6400 /\ cfg.TOTAL_WIDTH = 9000
               /\ tileHeight = 1000 /\ tileWidth = 1000 /\ cfg.TILE_OVERLAP = 20)
        => /\ raised = ""
           /\ numTilesHeight = 8
           /\ numTilesWidth = 11
           /\ Len(capturePositions) = 88

\* C10: for valid input, every row of the returned positions has strictly
\* monotonic x, increasing in even rows and decreasing in odd rows, all its
\* positions have y = yStart + row * step, and the first position is the start.
C10_Serpentine ==
    (PlanReturned /\ ValidGeometry)
        => /\ Len(capturePositions) = numTilesHeight * numTilesWidth
           /\ \A r \in 0..(numTilesHeight - 1) :
                 /\ \A j \in 0..(numTilesWidth - 1) :
                       PlannedAt(r, j)[2] = montageStartCoords[2] + r * StepY
                 /\ \A j \in 0..(numTilesWidth - 2) :
                       IF r % 2 = 0
                       THEN PlannedAt(r, j)[1] < PlannedAt(r, j + 1)[1]
                       ELSE PlannedAt(r, j)[1] > PlannedAt(r, j + 1)[1]
           /\ (capturePositions # <<>> => capturePositions[1] = montageStartCoords)

C10_Witness ==
    /\ PlanReturned /\ ValidGeometry
    /\ numTilesHeight >= 3 /\ numTilesWidth >= 3
    /\ montageStartCoords # <<0, 0>>
    /\ PlannedAt(1, 0)[1] > PlannedAt(1, 1)[1]

\* the effective tile sizes in micrometres (lines 215-216)
EffHeight == effectiveTile(tileHeight, cfg.TILE_OVERLAP) * 1000
EffWidth == effectiveTile(tileWidth, cfg.TILE_OVERLAP) * 1000

\* C11: for valid input the covered span numRows*effectiveTileHeight is at
\* most totalHeight and numCols*effectiveTileWidth at most totalWidth, and on
\* each axis the uncovered remainder is smaller than the effective tile size.
C11_Truncation ==
    (PlanReturned /\ ValidGeometry)
        => /\ numTilesHeight * EffHeight <= cfg.TOTAL_HEIGHT
           /\ numTilesWidth * EffWidth <= cfg.TOTAL_WIDTH
           /\ cfg.TOTAL_HEIGHT - numTilesHeight * EffHeight < EffHeight
           /\ cfg.TOTAL_WIDTH - numTilesWidth * EffWidth < EffWidth

C11_Witness ==
    /\ PlanReturned /\ ValidGeometry
    /\ numTilesHeight >= 2 /\ numTilesWidth >= 2
    /\ cfg.TOTAL_HEIGHT - numTilesHeight * EffHeight > 0
    /\ cfg.TOTAL_WIDTH - numTilesWidth * EffWidth > 0

\* C12: for valid input the returned list has exactly numRows*numCols
\* positions, and the returned row and column counts are not negative.
C12_PositionCount ==
    (PlanReturned /\ ValidGeometry)
        => /\ numTilesHeight >= 0
           /\ numTilesWidth >= 0
           /\ Len(capturePositions) = numTilesHeight * numTilesWidth

C12_Witness ==
    /\ PlanReturned /\ ValidGeometry
    /\ numTilesHeight >= 2 /\ numTilesWidth >= 3
    /\ Len(capturePositions) = numTilesHeight * numTilesWidth

(***************************************************************************)
(* Properties of the mask, checked under SpecMask                          *)
(***************************************************************************)
AllTrue(image) == \A r \in 1..Len(image) : \A c \in 1..Len(image[r]) : image[r][c] = 1
\* the truth value Python gives an element of the flattened mask
Truthy(row) == Len(row) = 1 /\ row[1] # 0

\* C8: zigzagFlatten of an all-true grid of numRows x numCols is a sequence of
\* numRows*numCols true values, as long as the list of planned positions.
C8_AllTrueFlattenLength ==
    (pc # "flatten" /\ AllTrue(binary_image))
        => /\ maskLen(mask) = numTilesHeight * numTilesWidth
           /\ maskLen(mask) = Len(capturePositions)
           /\ \A k \in 1..maskLen(mask) : Truthy(mask[k])

(***************************************************************************)
(* Properties of the run, checked under Spec                               *)
(***************************************************************************)
Planned == pc \notin {"start", "plan"}
Motion == {"RunStageMove", "SetHv_ON", "RunAutoAfc", "RunCapture"}
MaskFlattened == cfg.MASK_PATH # None /\ mask # <<>>

\* C7: a run whose plan is degenerate (no planned position: an effective tile
\* size <= 0, or a total smaller than one effective tile) ends in an error
\* when the positions are computed, and switches no HV on and moves no stage.
C7_NoSilentEmptyScan ==
    (Planned /\ capturePositions = <<>>)
        => /\ pc = "raised"
           /\ "SetHv_ON" \notin issued
           /\ "RunStageMove" \notin issued

\* C9: once the flattened mask is found to differ in length from the planned
\* positions, the run is over: no stage move, HV-on, autofocus or capture has
\* been or will be issued, and no tile is visited.
C9_MismatchAbortsBeforeMotion ==
    (MaskFlattened /\ maskLen(mask) # Len(capturePositions))
        => /\ pc = "exited"
           /\ issued \cap Motion = {}
           /\ hv = "OFF"
           /\ <<stageX, stageY>> = startCoords
           /\ i = 0

C9_Witness ==
    /\ pc = "exited"
    /\ MaskFlattened /\ maskLen(mask) # Len(capturePositions)
    /\ Len(capturePositions) >= 3
    /\ AllTrue(binary_image)


\* the grid cell of the k-th planned position: the planner's row r and column
\* c are read off the position, and the cell is row numRows-1-r, column c
PlannerRow(k) == (capturePositions[k][2] - montageStartCoords[2]) \div StepY
PlannerCol(k) == (capturePositions[k][1] - montageStartCoords[1]) \div StepX
GridCell(k) == binary_image[numTilesHeight - PlannerRow(k)][PlannerCol(k) + 1]

\* C16: for every grid, the k-th value of the flattened mask is the grid cell
\* of the k-th position of computeCapturePositions.
C16_MaskInVisitationOrder ==
    pc # "flatten"
        => \A k \in 1..Len(capturePositions) :
              k <= maskLen(mask) /\ mask[k] = <<GridCell(k)>>

\* the values are in that order inside the one row zigzagFlatten returns
RowInVisitationOrder ==
    pc # "flatten"
        => /\ Len(mask) = 1 /\ Len(mask[1]) = Len(capturePositions)
           /\ \A k \in 1..Len(capturePositions) : mask[1][k] = GridCell(k)

(***************************************************************************)
(* Properties of the acquisition loop, checked under Spec                  *)
(***************************************************************************)
\* the loop was reached and the script ran to its Exit() at line 195
RunEnded == pc = "exited" /\ "SetHv_ON" \in issued
NoFailure == failedCommand = ""
AllTiles == [k \in 1..Len(capturePositions) |-> k - 1]
\* tile t is not skipped at line 119
Selected(t) == cfg.MASK_PATH = None \/ mask[t + 1][1] # 0
SelectedTiles == SelectSeq(AllTiles, Selected)
InSeq(t, s) == \E k \in 1..Len(s) : s[k] = t

\* C13: a tile for which recursiveAutofocus returned False is still captured:
\* once the failure is logged the tile is either on its way to the capture or
\* captured, and a run that ends has captured every selected tile in order,
\* whatever the focus outcomes were.
C13_FocusFailureNonFatal ==
    /\ NoFailure =>
          \A t \in focusFailed :
              \/ t = i /\ pc \in {"ast", "capture"}
              \/ InSeq(t, captured)
    /\ RunEnded => captured = SelectedTiles

C13_Witness ==
    /\ RunEnded
    /\ Len(capturePositions) >= 3
    /\ 0 \in focusFailed /\ 1 \notin focusFailed
    /\ captured = AllTiles


MaskInUse == MaskFlattened /\ maskLen(mask) = Len(capturePositions) /\ pc # "flatten"
Increasing(s) == \A k \in 1..(Len(s) - 1) : s[k] < s[k + 1]

CaptureIssued == pc = "save" \/ failedCommand = "RunCapture"
InFocusRecovery == pc \in {"af_entry", "af_measure", "af_check", "af_restore", "focus_done"}

\* C18: every capture of tile i is issued while the stage is at
\* capturePositions[i], in X and in Y, whatever recursiveAutofocus did and
\* returned for that tile.
C18_CaptureAtPlannedPosition ==
    (pc = "capture" \/ CaptureIssued)
        => <<stageX, stageY>> = capturePositions[i + 1]

\* the focus was found at a displaced probe, and the tile was captured
C18_Witness ==
    /\ pc = "save" /\ cfg.USE_AUTO_FOCUS /\ focusSuccessful
    /\ Len(afLog) >= 2 /\ afLog[Len(afLog)].x # capturePositions[i + 1][1]
    /\ <<stageX, stageY>> = capturePositions[i + 1]
    /\ i >= 1

\* C19: every capture is issued at the magnification magValue of the run;
\* during focus recovery the magnification is AFC_MAG when magValue is below
\* it, and it is set back before the capture of the same tile.
C19_CaptureAtRunMagnification ==
    /\ CaptureIssued => mag = magValue
    /\ InFocusRecovery => mag = (IF magValue < AFC_MAG THEN AFC_MAG ELSE magValue)

C19_Witness ==
    /\ pc = "save" /\ cfg.USE_AUTO_FOCUS /\ magValue < AFC_MAG
    /\ i \in focusFailed /\ i >= 1
    /\ mag = magValue

\* C20: HV is ON before the first stage move; after the last tile the stage is
\* sent to the position read when the script started; HV is then switched OFF
\* if and only if HV_OFF_ON_END is set; and after that return move the stage
\* is not moved and nothing more is captured.
C20_RunFrame ==
    /\ []("RunStageMove" \in issued
             => "SetHv_ON" \in issued /\ (hv = "ON" \/ "SetHv_OFF" \in issued))
    /\ []((pc \in {"hv_off", "exited"} /\ "SetHv_ON" \in issued)
             => <<stageX, stageY>> = initialStage /\ captured = SelectedTiles)
    /\ [](RunEnded => /\ hv = "OFF" <=> cfg.HV_OFF_ON_END
                      /\ "SetHv_OFF" \in issued <=> cfg.HV_OFF_ON_END)
    /\ [][(pc \in {"hv_off", "exited"})
             => (UNCHANGED <<stageX, stageY, visited, captured>>)]_vars

C20_Witness ==
    /\ RunEnded /\ cfg.HV_OFF_ON_END /\ hv = "OFF"
    /\ cfg.MONTAGE_START_COORDS # None /\ montageStartCoords # initialStage
    /\ Len(captured) >= 3
    /\ <<stageX, stageY>> = initialStage


=============================================================================
